---- MODULE Spec2Model ----
(***************************************************************************)
(* A model of avalanche-types' wire messages (AppResponse,                 *)
(* StateSummaryFrontier) and of its secp256k1 address helpers              *)
(* (hash_sha256_ripemd160, eth_checksum, avax_address_to_short_bytes).     *)
(*                                                                         *)
(* Bytes are integers 0..255.  Strings are sequences of one-character      *)
(* strings, so that prefixes, cases and positions can be computed.         *)
(* The hash functions (SHA-256, RIPEMD-160, Keccak-256) are external       *)
(* libraries: their digests are values the environment supplies; the       *)
(* Keccak-256 digests are kept in a table, so that the same string always  *)
(* gets the same digest.                                                   *)
(***************************************************************************)
EXTENDS Integers, Sequences, FiniteSets, TLC

VARIABLES
    types,        \* message::TYPES, the type registry: name -> type code
    sent,         \* the serializations made so far, newest first
    short,        \* the last result of hash_sha256_ripemd160
    address,      \* the address string handed to avax_address_to_short_bytes
    built,        \* how address was constructed (hrp, alias, short bytes), or NotBuilt
    parsed,       \* the last call of avax_address_to_short_bytes and its result
    keccak,       \* the Keccak-256 digests met so far: string -> 32 bytes
    eth           \* the last eth_checksum round: input, output, re-application

msgVars  == <<types, sent>>
addrVars == <<short, address, built, parsed>>
ethVars  == <<keccak, eth>>
vars     == <<types, sent, short, address, built, parsed, keccak, eth>>

----------------------------------------------------------------------------
(* Generic helpers *)

\* the sequences over S of length at most n
SeqsUpTo(S, n) == UNION { [1..k -> S] : k \in 0..n }

\* n repetitions of x
Repeat(x, n) == [i \in 1..n |-> x]

\* Rust's str::starts_with
StartsWith(s, pfx) == Len(s) >= Len(pfx) /\ SubSeq(s, 1, Len(pfx)) = pfx

\* Rust's str::ends_with
EndsWith(s, sfx) ==
    Len(s) >= Len(sfx) /\ SubSeq(s, Len(s) - Len(sfx) + 1, Len(s)) = sfx

\* Rust's Result
Ok(v) == [ok |-> TRUE, value |-> v]
Err(kind, msg) == [ok |-> FALSE, kind |-> kind, msg |-> msg]

\* a big-endian byte string read as an unsigned integer
RECURSIVE BigEndian(_)
BigEndian(bs) ==
    IF bs = <<>> THEN 0
    ELSE BigEndian(SubSeq(bs, 1, Len(bs) - 1)) * 256 + bs[Len(bs)]

----------------------------------------------------------------------------
(* Strings: sequences of one-character strings over printable ASCII. *)

\* the printable ASCII characters, from the space (code 32) to "~" (code 126);
\* "grave" stands for the grave accent (code 96)
Printable ==
    <<" ", "!", "\"", "#", "$", "%", "&", "'", "(", ")", "*", "+", ",", "-",
      ".", "/", "0", "1", "2", "3", "4", "5", "6", "7", "8", "9", ":", ";",
      "<", "=", ">", "?", "@", "A", "B", "C", "D", "E", "F", "G", "H", "I",
      "J", "K", "L", "M", "N", "O", "P", "Q", "R", "S", "T", "U", "V", "W",
      "X", "Y", "Z", "[", "\\", "]", "^", "_", "grave", "a", "b", "c", "d", "e",
      "f", "g", "h", "i", "j", "k", "l", "m", "n", "o", "p", "q", "r", "s",
      "t", "u", "v", "w", "x", "y", "z", "{", "|", "}", "~">>

LowerLetters ==
    <<"a", "b", "c", "d", "e", "f", "g", "h", "i", "j", "k", "l", "m", "n",
      "o", "p", "q", "r", "s", "t", "u", "v", "w", "x", "y", "z">>

UpperLetters ==
    <<"A", "B", "C", "D", "E", "F", "G", "H", "I", "J", "K", "L", "M", "N",
      "O", "P", "Q", "R", "S", "T", "U", "V", "W", "X", "Y", "Z">>

\* the place of x in the sequence s, 0 when it is not there
IndexOf(s, x) == IF \E i \in DOMAIN s : s[i] = x
                 THEN CHOOSE i \in DOMAIN s : s[i] = x /\ \A j \in 1..(i - 1) : s[j] # x
                 ELSE 0

\* the character's code (u8)
Ord(c) == 31 + IndexOf(Printable, c)

is_lowercase(c) == IndexOf(LowerLetters, c) # 0
is_uppercase(c) == IndexOf(UpperLetters, c) # 0

\* char::to_ascii_lowercase / to_lowercase on ASCII
LowerChar(c) == IF is_uppercase(c) THEN LowerLetters[IndexOf(UpperLetters, c)] ELSE c

\* char::to_uppercase on ASCII
UpperChar(c) == IF is_lowercase(c) THEN UpperLetters[IndexOf(LowerLetters, c)] ELSE c

\* str::to_lowercase
to_lowercase(s) == [i \in DOMAIN s |-> LowerChar(s[i])]

\* str::trim_start_matches(pat): removes the pattern from the front for as long
\* as the string starts with it
RECURSIVE trim_start_matches(_, _)
trim_start_matches(s, pat) ==
    IF pat # <<>> /\ StartsWith(s, pat)
    THEN trim_start_matches(SubSeq(s, Len(pat) + 1, Len(s)), pat)
    ELSE s

\* str::trim on ASCII: removes the white space at both ends
RECURSIVE trim(_)
trim(s) ==
    IF s # <<>> /\ s[1] = " " THEN trim(Tail(s))
    ELSE IF s # <<>> /\ s[Len(s)] = " " THEN trim(SubSeq(s, 1, Len(s) - 1))
    ELSE s

\* 2^n for n in 0..30
Pow2Table ==
    <<1, 2, 4, 8, 16, 32, 64, 128, 256, 512, 1024, 2048, 4096, 8192, 16384,
      32768, 65536, 131072, 262144, 524288, 1048576, 2097152, 4194304,
      8388608, 16777216, 33554432, 67108864, 134217728, 268435456, 536870912,
      1073741824>>

Pow2(n) == Pow2Table[n + 1]

\* bitwise exclusive or of two 5-bit values
Xor5(a, b) ==
    ((a + b) % 2)
    + 2 * (((a \div 2) + (b \div 2)) % 2)
    + 4 * (((a \div 4) + (b \div 4)) % 2)
    + 8 * (((a \div 8) + (b \div 8)) % 2)
    + 16 * (((a \div 16) + (b \div 16)) % 2)

\* bitwise exclusive or of two naturals below 2^30, five bits at a time
Xor(a, b) ==
    Xor5(a % 32, b % 32)
    + 32 * Xor5((a \div 32) % 32, (b \div 32) % 32)
    + 1024 * Xor5((a \div 1024) % 32, (b \div 1024) % 32)
    + 32768 * Xor5((a \div 32768) % 32, (b \div 32768) % 32)
    + 1048576 * Xor5((a \div 1048576) % 32, (b \div 1048576) % 32)
    + 33554432 * Xor5((a \div 33554432) % 32, (b \div 33554432) % 32)

----------------------------------------------------------------------------
(* The packer (crate::packer, reached through message::default_packer_with_header). *)

default_packer_with_header == [header |-> TRUE, bytes |-> <<>>]

pack_byte(pk, b) == [pk EXCEPT !.bytes = @ \o <<b>>]

pack_bool(pk, b) == pack_byte(pk, IF b THEN 1 ELSE 0)

pack_u32(pk, n) ==
    [pk EXCEPT !.bytes = @ \o << (n \div 16777216) % 256, (n \div 65536) % 256,
                                 (n \div 256) % 256, n % 256 >>]

pack_bytes(pk, buf) == [pk EXCEPT !.bytes = @ \o buf]

pack_bytes_with_header(pk, buf) == pack_bytes(pack_u32(pk, Len(buf)), buf)

take_bytes(pk) ==
    IF pk.header THEN pack_u32([pk EXCEPT !.bytes = <<>>], Len(pk.bytes)).bytes \o pk.bytes
    ELSE pk.bytes

----------------------------------------------------------------------------
(* The type registry and the two messages. *)

\* message::TYPES, the entries the two messages look up
TYPES == [n \in {"app_response", "state_summary_frontier"} |->
             IF n = "app_response" THEN 21 ELSE 24]

NoPacker == [header |-> FALSE, bytes |-> <<>>, none |-> TRUE]

\* what one call of serialize_with_header did: its result and the packer it
\* created (NoPacker when it returned before creating one)
Outcome(res, pk) == [res |-> res, packer |-> pk]

\* a packer without the outer length header
MutPackerNoHeader == [header |-> FALSE, bytes |-> <<>>]

\* app_response with the packer created without a header
MutAppResponseNoHeader(reg, m) ==
    IF "app_response" \notin DOMAIN reg
    THEN Outcome(Err("InvalidInput", "unknown type name"), NoPacker)
    ELSE LET p1 == pack_byte(MutPackerNoHeader, reg["app_response"])
             p2 == pack_bool(p1, FALSE)
             p3 == pack_bytes(p2, m.chain_id)
             p4 == pack_u32(p3, m.request_id)
             p5 == pack_bytes_with_header(p4, m.payload)
         IN  Outcome(Ok(take_bytes(p5)), p5)

\* app_response with request_id packed before chain_id
MutAppResponseSwapped(reg, m) ==
    IF "app_response" \notin DOMAIN reg
    THEN Outcome(Err("InvalidInput", "unknown type name"), NoPacker)
    ELSE LET p1 == pack_byte(default_packer_with_header, reg["app_response"])
             p2 == pack_bool(p1, FALSE)
             p3 == pack_u32(p2, m.request_id)
             p4 == pack_bytes(p3, m.chain_id)
             p5 == pack_bytes_with_header(p4, m.payload)
         IN  Outcome(Ok(take_bytes(p5)), p5)

\* app_response creating its packer and writing before the lookup is checked
MutAppResponseEagerPacker(reg, m) ==
    LET p0 == default_packer_with_header
    IN  IF "app_response" \notin DOMAIN reg
        THEN Outcome(Err("InvalidInput", "unknown type name"), pack_byte(p0, 0))
        ELSE LET p1 == pack_byte(p0, reg["app_response"])
                 p2 == pack_bool(p1, FALSE)
                 p3 == pack_bytes(p2, m.chain_id)
                 p4 == pack_u32(p3, m.request_id)
                 p5 == pack_bytes_with_header(p4, m.payload)
             IN  Outcome(Ok(take_bytes(p5)), p5)

\* app_response::Message::serialize_with_header
AppResponse_serialize_with_header(reg, m) ==
    IF "app_response" \notin DOMAIN reg
    THEN Outcome(Err("InvalidInput", "unknown type name"), NoPacker)
    ELSE LET p1 == pack_byte(default_packer_with_header, reg["app_response"])
             p2 == pack_bool(p1, FALSE)
             p3 == pack_bytes(p2, m.chain_id)
             p4 == pack_u32(p3, m.request_id)
             p5 == pack_bytes_with_header(p4, m.payload)
         IN  Outcome(Ok(take_bytes(p5)), p5)

\* state_summary_frontier looking up the other message's name
MutStateSummaryFrontierWrongName(reg, m) ==
    IF "app_response" \notin DOMAIN reg
    THEN Outcome(Err("InvalidInput", "unknown type name"), NoPacker)
    ELSE LET p1 == pack_byte(default_packer_with_header, reg["app_response"])
             p2 == pack_bool(p1, FALSE)
             p3 == pack_bytes(p2, m.chain_id)
             p4 == pack_u32(p3, m.request_id)
             p5 == pack_bytes_with_header(p4, m.payload)
         IN  Outcome(Ok(take_bytes(p5)), p5)

\* state_summary_frontier::Message::serialize_with_header
StateSummaryFrontier_serialize_with_header(reg, m) ==
    IF "state_summary_frontier" \notin DOMAIN reg
    THEN Outcome(Err("InvalidInput", "unknown type name"), NoPacker)
    ELSE LET p1 == pack_byte(default_packer_with_header, reg["state_summary_frontier"])
             p2 == pack_bool(p1, FALSE)
             p3 == pack_bytes(p2, m.chain_id)
             p4 == pack_u32(p3, m.request_id)
             p5 == pack_bytes_with_header(p4, m.payload)
         IN  Outcome(Ok(take_bytes(p5)), p5)

----------------------------------------------------------------------------
(* bech32, as address.rs and the address construction call it. *)

\* bech32's CHARSET: the character of each 5-bit value 0..31 (at index value + 1)
CHARSET ==
    <<"q", "p", "z", "r", "y", "9", "x", "8", "g", "f", "2", "t", "v", "d", "w", "0",
      "s", "3", "j", "n", "5", "4", "k", "h", "c", "e", "6", "m", "u", "a", "7", "l">>

\* bech32's generator constants
GEN == <<996825010, 642813549, 513874426, 1027748829, 705979059>>

\* one step of polymod: chk = (chk & 0x1ffffff) << 5 ^ v, then the generators
\* selected by the top five bits of the old chk
PolymodStep(chk, v) ==
    LET b  == chk \div 33554432
        c0 == Xor((chk % 33554432) * 32, v)
        c1 == IF b % 2 = 1 THEN Xor(c0, GEN[1]) ELSE c0
        c2 == IF (b \div 2) % 2 = 1 THEN Xor(c1, GEN[2]) ELSE c1
        c3 == IF (b \div 4) % 2 = 1 THEN Xor(c2, GEN[3]) ELSE c2
        c4 == IF (b \div 8) % 2 = 1 THEN Xor(c3, GEN[4]) ELSE c3
    IN  IF (b \div 16) % 2 = 1 THEN Xor(c4, GEN[5]) ELSE c4

RECURSIVE PolymodFrom(_, _)
PolymodFrom(chk, values) ==
    IF values = <<>> THEN chk
    ELSE LET next == PolymodStep(chk, Head(values))
         IN  IF next >= 0 THEN PolymodFrom(next, Tail(values)) ELSE next

polymod(values) == PolymodFrom(1, values)

\* hrp_expand: the high bits of each character, a zero, the low bits
hrp_expand(hrp) ==
    [i \in 1..Len(hrp) |-> Ord(hrp[i]) \div 32] \o <<0>> \o
    [i \in 1..Len(hrp) |-> Ord(hrp[i]) % 32]

\* check_hrp: the case of a human-readable part, or the error it has
check_hrp(hrp) ==
    IF hrp = <<>> \/ Len(hrp) > 83 THEN "InvalidLength"
    ELSE IF \E i \in DOMAIN hrp : Ord(hrp[i]) < 33 \/ Ord(hrp[i]) > 126 THEN "InvalidChar"
    ELSE IF (\E i \in DOMAIN hrp : is_lowercase(hrp[i])) /\
            (\E i \in DOMAIN hrp : is_uppercase(hrp[i])) THEN "MixedCase"
    ELSE IF \E i \in DOMAIN hrp : is_uppercase(hrp[i]) THEN "Upper"
    ELSE IF \E i \in DOMAIN hrp : is_lowercase(hrp[i]) THEN "Lower"
    ELSE "None"

\* CHARSET_REV: the 5-bit value of a data character in either case, -1 for the rest
CHARSET_REV(c) == IndexOf(CHARSET, LowerChar(c)) - 1

\* whether the data character at index i breaks the case established before it:
\* by the human-readable part, or by the letters of the data part before it
MixesCase(chars, case, i) ==
    \/ /\ is_lowercase(chars[i])
       /\ case = "Upper" \/ \E j \in 1..(i - 1) : is_uppercase(chars[j])
    \/ /\ is_uppercase(chars[i])
       /\ case = "Lower" \/ \E j \in 1..(i - 1) : is_lowercase(chars[j])

\* the data part's characters, one after the other: the 5-bit values, or the
\* error of the first character that has one
DecodeData(chars, case) ==
    LET bad == { i \in DOMAIN chars : MixesCase(chars, case, i) \/ CHARSET_REV(chars[i]) < 0 }
    IN  IF bad = {} THEN Ok([i \in DOMAIN chars |-> CHARSET_REV(chars[i])])
        ELSE LET first == CHOOSE i \in bad : \A k \in bad : i <= k
             IN  IF MixesCase(chars, case, first) THEN Err("bech32", "MixedCase")
                 ELSE Err("bech32", "InvalidChar")

\* the index of the last separator "1", 0 when there is none (str::rfind)
LastSeparator(s) ==
    IF \E i \in DOMAIN s : s[i] = "1"
    THEN CHOOSE i \in DOMAIN s : s[i] = "1" /\ \A j \in (i + 1)..Len(s) : s[j] # "1"
    ELSE 0

\* bech32::decode: Ok(<<hrp, data, variant>>) or the library's error
bech32_decode(s) ==
    LET sep == LastSeparator(s)
    IN  IF sep = 0 THEN Err("bech32", "MissingSeparator")
        ELSE LET raw_hrp  == SubSeq(s, 1, sep - 1)
                 raw_data == SubSeq(s, sep + 1, Len(s))
                 case     == check_hrp(raw_hrp)
             IN  IF case \in {"InvalidLength", "InvalidChar", "MixedCase"}
                 THEN Err("bech32", case)
                 ELSE LET hrp_lower == IF case = "Upper" THEN to_lowercase(raw_hrp)
                                       ELSE raw_hrp
                          data == DecodeData(raw_data, case)
                      IN  IF ~data.ok THEN data
                          ELSE IF Len(data.value) < 6 THEN Err("bech32", "InvalidLength")
                          ELSE LET sum == polymod(hrp_expand(hrp_lower) \o data.value)
                                   payload == SubSeq(data.value, 1, Len(data.value) - 6)
                               IN  IF sum = 1 THEN Ok(<<hrp_lower, payload, "Bech32">>)
                                   ELSE IF sum = 734539939
                                        THEN Ok(<<hrp_lower, payload, "Bech32m">>)
                                   ELSE Err("bech32", "InvalidChecksum")

\* bit k (from 0) of the bit string that data spells, `from` bits a value,
\* most significant bit first
StreamBit(data, from, k) == (data[(k \div from) + 1] \div Pow2(from - 1 - (k % from))) % 2

\* the `to` bits from bit k on as a number, bits past the end n counting as zero
Group(data, from, to, k, n) ==
    LET bit(t) == IF t < to /\ k + t < n THEN StreamBit(data, from, k + t) * Pow2(to - 1 - t)
                  ELSE 0
    IN  bit(0) + bit(1) + bit(2) + bit(3) + bit(4) + bit(5) + bit(6) + bit(7)

\* bech32::convert_bits(data, from, to, pad), for from and to in 1..8: the loop
\* emits every whole group of `to` bits; the bits left over are padded to a last
\* group (pad), or must be fewer than `from` and all zero
convert_bits(data, from, to, pad) ==
    LET n    == Len(data) * from
        ret  == [j \in 1..(n \div to) |-> Group(data, from, to, (j - 1) * to, n)]
        bits == n % to
        rest == Group(data, from, to, n - bits, n)
    IN  IF \E i \in DOMAIN data : data[i] \div Pow2(from) # 0
        THEN Err("bech32", "InvalidData")
        ELSE IF pad THEN (IF bits > 0 THEN Ok(Append(ret, rest)) ELSE Ok(ret))
        ELSE IF bits >= from \/ rest # 0 THEN Err("bech32", "InvalidPadding")
        ELSE Ok(ret)

\* create_checksum: the six 5-bit values that make polymod of the whole equal 1
create_checksum(hrp, data) ==
    LET plm == Xor(polymod(hrp_expand(hrp) \o data \o <<0, 0, 0, 0, 0, 0>>), 1)
    IN  [i \in 1..6 |-> (plm \div Pow2(5 * (6 - i))) % 32]

\* bech32::encode(hrp, data, Variant::Bech32) for a valid lower-case hrp
bech32_encode(hrp, data) ==
    LET all == data \o create_checksum(hrp, data)
    IN  hrp \o <<"1">> \o [i \in 1..Len(all) |-> CHARSET[all[i] + 1]]

----------------------------------------------------------------------------
(* key::secp256k1::address *)

ShortIdLen == 20

\* hash_sha256_ripemd160 without the length check
MutHashNoLengthCheck(pub_key_bytes, sha256_ripemd160) == Ok(sha256_ripemd160)

\* hash_sha256_ripemd160: sha256_ripemd160 is what Ripemd160::digest returned
\* for the SHA-256 digest of pub_key_bytes
hash_sha256_ripemd160(pub_key_bytes, sha256_ripemd160) ==
    IF Len(sha256_ripemd160) # ShortIdLen
    THEN Err("InvalidData", "ripemd160 of sha256 must be 20-byte")
    ELSE Ok(sha256_ripemd160)

\* the prefix stripped without the "-" appended to the alias
MutTrimmedNoDash(chain_alias, addr) ==
    IF chain_alias = <<>> THEN trim(addr)
    ELSE trim_start_matches(addr, chain_alias)

\* the prefix stripped once (str::strip_prefix)
MutTrimmedOnce(chain_alias, addr) ==
    IF chain_alias = <<>> THEN trim(addr)
    ELSE LET pfx == IF EndsWith(chain_alias, <<"-">>) THEN chain_alias
                    ELSE chain_alias \o <<"-">>
         IN  IF StartsWith(addr, pfx) THEN SubSeq(addr, Len(pfx) + 1, Len(addr))
             ELSE addr

\* avax_address_to_short_bytes, the string it hands to bech32::decode
trimmed(chain_alias, addr) ==
    IF chain_alias = <<>> THEN trim(addr)
    ELSE LET pfx == IF EndsWith(chain_alias, <<"-">>) THEN chain_alias
                    ELSE chain_alias \o <<"-">>
         IN  trim_start_matches(addr, pfx)

\* avax_address_to_short_bytes falling back to an empty result when the
\* decoding fails (unwrap_or_default)
MutAvaxDecodeDefault(chain_alias, addr) ==
    LET decoded == bech32_decode(trimmed(chain_alias, addr))
    IN  IF ~decoded.ok THEN Ok(<< <<>>, <<>> >>)
        ELSE LET convert == convert_bits(decoded.value[2], 5, 8, FALSE)
             IN  IF ~convert.ok THEN Err("Other", "failed bech32::convert_bits")
                 ELSE Ok(<<decoded.value[1], convert.value>>)

\* avax_address_to_short_bytes
avax_address_to_short_bytes(chain_alias, addr) ==
    LET decoded == bech32_decode(trimmed(chain_alias, addr))
    IN  IF ~decoded.ok THEN Err("Other", "failed bech32::decode")
        ELSE LET convert == convert_bits(decoded.value[2], 5, 8, FALSE)
             IN  IF ~convert.ok THEN Err("Other", "failed bech32::convert_bits")
                 ELSE Ok(<<decoded.value[1], convert.value>>)

\* the human-readable part of a network id
NetworkHrp(network_id) ==
    IF network_id = 1 THEN <<"a", "v", "a", "x">>
    ELSE IF network_id = 5 THEN <<"f", "u", "j", "i">>
    ELSE <<"c", "u", "s", "t", "o", "m">>

\* the address construction: "<alias>-" and the bech32 text of the short id
to_avax_address(short_bytes, network_id, chain_id_alias) ==
    chain_id_alias \o <<"-">> \o
    bech32_encode(NetworkHrp(network_id), convert_bits(short_bytes, 8, 5, TRUE).value)

\* private_key::HEX_ENCODE_PREFIX
HEX_ENCODE_PREFIX == <<"0", "x">>

HexDigits ==
    <<"0", "1", "2", "3", "4", "5", "6", "7", "8", "9", "a", "b", "c", "d", "e", "f">>

\* hex::encode
hex_encode(bytes) ==
    [i \in 1..(2 * Len(bytes)) |->
        LET b == bytes[(i + 1) \div 2]
        IN  HexDigits[(IF i % 2 = 1 THEN b \div 16 ELSE b % 16) + 1]]

\* char::to_digit(16): the digit's value, -1 for None (None is below every Some)
to_digit16(c) == IndexOf(HexDigits, LowerChar(c)) - 1

\* checksum_eip55 with > in place of >=
MutChecksumStrict(addr_s, addr_hash) ==
    LET n == IF Len(addr_s) < Len(addr_hash) THEN Len(addr_s) ELSE Len(addr_hash)
    IN  [i \in 1..n |-> IF to_digit16(addr_hash[i]) > 8 THEN UpperChar(addr_s[i])
                        ELSE addr_s[i]]

\* checksum_eip55: zip stops at the shorter of the two strings
checksum_eip55(addr_s, addr_hash) ==
    LET n == IF Len(addr_s) < Len(addr_hash) THEN Len(addr_s) ELSE Len(addr_hash)
    IN  [i \in 1..n |-> IF to_digit16(addr_hash[i]) >= 8 THEN UpperChar(addr_s[i])
                        ELSE addr_s[i]]

\* eth_checksum, its addr_lower_case
addr_lower_case(addr_s) == to_lowercase(trim_start_matches(addr_s, HEX_ENCODE_PREFIX))

\* the digest taken of the string before it is lower-cased
MutKeccakInputCased(addr_s) == trim_start_matches(addr_s, HEX_ENCODE_PREFIX)

\* eth_checksum, the string it passes to keccak256
keccak_input(addr_s) == addr_lower_case(addr_s)

\* eth_checksum; digests is Keccak-256 as a table that holds keccak_input(addr_s)
eth_checksum(addr_s, digests) ==
    checksum_eip55(addr_lower_case(addr_s), hex_encode(digests[keccak_input(addr_s)]))

----------------------------------------------------------------------------
(* Inputs of the message model. *)

\* the longest payload drawn byte by byte
MaxPayloadLen == 2

IdLen == 32

PayloadBytes == {255}

\* ids::Id values: Id::empty() and one with 32 different bytes
ChainIds == { Repeat(0, IdLen), [i \in 1..IdLen |-> i] }

\* request ids (u32; the model keeps them below 2^31)
RequestIds == {7, 16909060}

\* the payloads: short ones byte by byte, and those of the two test_message tests
Payloads == SeqsUpTo(PayloadBytes, MaxPayloadLen) \cup {<<0>>, <<1, 2, 3>>, <<1, 2, 3, 4>>}

\* the registries the lookup can meet: the shipped one and ones lacking a name
Registries == { [n \in S |-> TYPES[n]] : S \in SUBSET (DOMAIN TYPES) }

Message(c, r, p) == [chain_id |-> c, request_id |-> r, payload |-> p]

Record(kind, m, o) == [kind |-> kind, msg |-> m, out |-> o]

\* a run serializes two messages; sent holds them, the newer first
Remember(rec) == <<rec>> \o sent

SerializeAppResponse ==
    \E c \in ChainIds, r \in RequestIds, p \in Payloads :
        LET m == Message(c, r, p)
        IN  /\ Len(sent) < 2
            /\ sent' = Remember(Record("app_response", m,
                                       AppResponse_serialize_with_header(types, m)))
            /\ UNCHANGED <<types, addrVars, ethVars>>

SerializeStateSummaryFrontier ==
    \E c \in ChainIds, r \in RequestIds, p \in Payloads :
        LET m == Message(c, r, p)
        IN  /\ Len(sent) < 2
            /\ sent' = Remember(Record("state_summary_frontier", m,
                                       StateSummaryFrontier_serialize_with_header(types, m)))
            /\ UNCHANGED <<types, addrVars, ethVars>>

NotBuilt == [none |-> TRUE]
NotParsed == [none |-> TRUE]
NoShort == [none |-> TRUE]
NoEth == [none |-> TRUE]

----------------------------------------------------------------------------
(* Inputs and actions of the address model. *)

\* the longest public key drawn byte by byte
MaxKeyLen == 1

PubKeys == SeqsUpTo({4}, MaxKeyLen)

\* what the RIPEMD-160 step returns: 20 bytes from the real function; the
\* other lengths are those of a broken one, which the length check guards against
RipemdOutputs ==
    { [i \in 1..ShortIdLen |-> (i * 37 + 11) % 256], Repeat(255, ShortIdLen),
      Repeat(0, ShortIdLen - 1), Repeat(0, ShortIdLen + 1), <<>> }

NetworkIds == {1, 9999}

ChainAliases == { <<"X">>, <<"P">>, <<"C">> }

\* the aliases a caller passes when parsing
ParseAliases == ChainAliases \cup { <<>>, <<"X", "-">> }

TamperKinds == {"doubled", "bare", "bare_spaced", "flip_checksum", "bad_char",
                "no_separator", "upper", "bad_padding"}

\* an address string a caller may pass that is not the one constructed:
\* b is how the address was built, a the address built
Tamper(kind, b, a) ==
    LET pfx  == b.alias \o <<"-">>
        bare == SubSeq(a, Len(pfx) + 1, Len(a))
        last == bare[Len(bare)]
        init == SubSeq(bare, 1, Len(bare) - 1)
    IN  CASE kind = "doubled"       -> pfx \o a
          [] kind = "bare"          -> bare
          [] kind = "bare_spaced"   -> <<" ">> \o bare \o <<" ", " ">>
          [] kind = "flip_checksum" -> pfx \o init \o <<IF last = "q" THEN "p" ELSE "q">>
          [] kind = "bad_char"      -> pfx \o init \o <<"b">>
          [] kind = "no_separator"  -> pfx \o b.hrp
          [] kind = "upper"         -> pfx \o [i \in DOMAIN bare |-> UpperChar(bare[i])]
          [] kind = "bad_padding"   -> pfx \o bech32_encode(b.hrp, <<0, 1>>)

\* a key's short id is computed
HashPubKey ==
    \E pub \in PubKeys, d \in RipemdOutputs :
        /\ short = NoShort
        /\ short' = [pub |-> pub, digest |-> d, res |-> hash_sha256_ripemd160(pub, d)]
        /\ address' = <<>>
        /\ built' = NotBuilt
        /\ parsed' = NotParsed
        /\ UNCHANGED <<msgVars, ethVars>>

\* the address of the key for a network and a chain alias is constructed
ToAvaxAddress ==
    \E n \in NetworkIds, a \in ChainAliases :
        /\ short # NoShort
        /\ short.res.ok
        /\ address = <<>>
        /\ address' = to_avax_address(short.res.value, n, a)
        /\ built' = [kind |-> "as_built", hrp |-> NetworkHrp(n), alias |-> a,
                     short |-> short.res.value]
        /\ parsed' = NotParsed
        /\ UNCHANGED <<short, msgVars, ethVars>>

\* a caller passes another string than the constructed one
SupplyAddress ==
    \E k \in TamperKinds :
        /\ built # NotBuilt
        /\ built.kind = "as_built"
        /\ parsed = NotParsed
        /\ address' = Tamper(k, built, address)
        /\ built' = [built EXCEPT !.kind = k]
        /\ UNCHANGED <<short, parsed, msgVars, ethVars>>

\* avax_address_to_short_bytes is called on the address
ParseAddress ==
    \E a \in ParseAliases :
        /\ address # <<>>
        /\ parsed = NotParsed
        /\ parsed' = [alias |-> a, addr |-> address, handed |-> trimmed(a, address),
                      res |-> avax_address_to_short_bytes(a, address)]
        /\ UNCHANGED <<short, address, built, msgVars, ethVars>>

----------------------------------------------------------------------------
(* Inputs and actions of the checksum model. *)

\* the longest hex string drawn character by character
MaxHexLen == 2

DigestLen == 32

HexBodyChars == {"a", "F", "1"}

\* n hex characters, digits and lower-case letters mixed
LongHex(n) == [i \in 1..n |-> HexDigits[((i * 7) % 16) + 1]]

\* hex strings with and without the prefix, short ones and ones of 40, 64 and
\* 65 characters; and strings that are not hex
EthInputs ==
    LET bodies == SeqsUpTo(HexBodyChars, MaxHexLen)
                      \cup {LongHex(40), LongHex(2 * DigestLen), LongHex(2 * DigestLen + 1)}
    IN  bodies \cup { HEX_ENCODE_PREFIX \o b : b \in bodies }
               \cup { HEX_ENCODE_PREFIX \o [i \in 1..40 |-> UpperChar(LongHex(40)[i])] }
               \cup { <<"g">>, <<"0", "X", "1", "a">>, <<"0", "x", "0", "x", "a">> }

\* Keccak-256 digests: each nibble 0, 8, 7 or 15 in turn
KeccakOutputs == { Repeat(b, DigestLen) : b \in {0, 255, 128, 8, 120} }

\* eth_checksum is called on an input; keccak holds the digest it met
EthChecksum ==
    \E a \in EthInputs, d \in KeccakOutputs :
        /\ eth = NoEth
        /\ keccak' = (keccak_input(a) :> d)
        /\ eth' = [stage |-> "checked", input |-> a, out |-> eth_checksum(a, keccak')]
        /\ UNCHANGED <<msgVars, addrVars>>

\* the result is lower-cased and eth_checksum is called on it; a string keccak
\* has met keeps its digest, a new one gets some digest
EthChecksumAgain ==
    /\ eth # NoEth
    /\ eth.stage = "checked"
    /\ LET a2 == to_lowercase(eth.out)
       IN  \E d \in KeccakOutputs :
               /\ keccak' = IF keccak_input(a2) \in DOMAIN keccak THEN keccak
                            ELSE keccak @@ (keccak_input(a2) :> d)
               /\ eth' = [stage |-> "rechecked", input |-> eth.input, out |-> eth.out,
                          input2 |-> a2, out2 |-> eth_checksum(a2, keccak')]
    /\ UNCHANGED <<msgVars, addrVars>>

IdleAddr == short = NoShort /\ address = <<>> /\ built = NotBuilt /\ parsed = NotParsed
IdleEth == keccak = <<>> /\ eth = NoEth

Init == types = TYPES /\ sent = <<>> /\ IdleAddr /\ IdleEth

Next == SerializeAppResponse \/ SerializeStateSummaryFrontier

Spec == Init /\ [][Next]_vars

InitRegistry == types \in Registries /\ sent = <<>> /\ IdleAddr /\ IdleEth

SpecRegistry == InitRegistry /\ [][Next]_vars

NextAddr == HashPubKey \/ ToAvaxAddress \/ SupplyAddress \/ ParseAddress

SpecAddr == Init /\ [][NextAddr]_vars

NextEth == EthChecksum \/ EthChecksumAgain

SpecEth == Init /\ [][NextEth]_vars

----------------------------------------------------------------------------
(* Properties. *)

\* the registry name of a message kind
TypeName(kind) == kind

\* the bytes a serialization returned
Bytes(rec) == rec.out.res.value

\* s_out is s_in with every leading repetition of pat removed
StrippedOfAll(s_in, pat, s_out) ==
    /\ ~StartsWith(s_out, pat)
    /\ \E k \in 0..Len(s_in) :
           /\ Len(s_in) = k * Len(pat) + Len(s_out)
           /\ \A i \in 1..(k * Len(pat)) : s_in[i] = pat[((i - 1) % Len(pat)) + 1]
           /\ SubSeq(s_in, k * Len(pat) + 1, Len(s_in)) = s_out

\* s_out is s_in with at most one leading pat removed
StrippedOfOne(s_in, pat, s_out) ==
    IF StartsWith(s_in, pat) THEN s_out = SubSeq(s_in, Len(pat) + 1, Len(s_in))
    ELSE s_out = s_in

\* nibble i (from 1) of a digest, the high nibble of each byte first
Nibble(digest, i) ==
    IF i % 2 = 1 THEN digest[(i + 1) \div 2] \div 16 ELSE digest[i \div 2] % 16

IsHexChar(c) == to_digit16(c) >= 0

\* hex characters in either case, with or without the hex prefix
IsHexAddress(a) ==
    LET body == IF StartsWith(a, HEX_ENCODE_PREFIX) THEN SubSeq(a, 3, Len(a)) ELSE a
    IN  \A i \in DOMAIN body : IsHexChar(body[i])

\* C1: the first four bytes of every serialize_with_header output, read
\* big-endian, are the number of bytes that follow them.
C1_LengthPrefixCounts ==
    \A i \in DOMAIN sent :
        /\ sent[i].out.res.ok
        /\ Len(Bytes(sent[i])) >= 4
        /\ BigEndian(SubSeq(Bytes(sent[i]), 1, 4)) = Len(Bytes(sent[i])) - 4

\* C1 witness: an AppResponse with a 4-byte payload and a StateSummaryFrontier
\* with the empty payload were serialized, with prefixes 46 and 42
C1_Witness ==
    /\ Len(sent) = 2
    /\ sent[2].kind = "app_response" /\ sent[2].msg.payload = <<1, 2, 3, 4>>
    /\ sent[1].kind = "state_summary_frontier" /\ sent[1].msg.payload = <<>>
    /\ BigEndian(SubSeq(Bytes(sent[2]), 1, 4)) = 46 /\ Len(Bytes(sent[2])) = 50
    /\ BigEndian(SubSeq(Bytes(sent[1]), 1, 4)) = 42 /\ Len(Bytes(sent[1])) = 46

\* C2: after the length prefix come the type code (0x15 AppResponse, 0x18
\* StateSummaryFrontier), a zero flag byte, the 32 bytes of the chain id, the
\* request id as 4 big-endian bytes, the payload length as 4 big-endian bytes
\* and the payload; the prefix is 42 + len(payload).
C2_WireLayout ==
    \A i \in DOMAIN sent :
        LET o == Bytes(sent[i])
            m == sent[i].msg
        IN  /\ sent[i].out.res.ok
            /\ Len(o) = 46 + Len(m.payload)
            /\ BigEndian(SubSeq(o, 1, 4)) = 42 + Len(m.payload)
            /\ o[5] = (IF sent[i].kind = "app_response" THEN 21 ELSE 24)
            /\ o[6] = 0
            /\ SubSeq(o, 7, 38) = m.chain_id
            /\ BigEndian(SubSeq(o, 39, 42)) = m.request_id
            /\ BigEndian(SubSeq(o, 43, 46)) = Len(m.payload)
            /\ SubSeq(o, 47, Len(o)) = m.payload

\* C2 witness: the byte strings of the two test_message tests
C2_Witness ==
    /\ Len(sent) = 2
    /\ sent[2] = Record("app_response", Message(Repeat(0, 32), 7, <<1, 2, 3, 4>>),
                        sent[2].out)
    /\ Bytes(sent[2]) = <<0, 0, 0, 46, 21, 0>> \o Repeat(0, 32) \o
                        <<0, 0, 0, 7, 0, 0, 0, 4, 1, 2, 3, 4>>
    /\ sent[1] = Record("state_summary_frontier", Message(Repeat(0, 32), 7, <<1, 2, 3>>),
                        sent[1].out)
    /\ Bytes(sent[1]) = <<0, 0, 0, 45, 24, 0>> \o Repeat(0, 32) \o
                        <<0, 0, 0, 7, 0, 0, 0, 3, 1, 2, 3>>

\* C3: avax_address_to_short_bytes applied, with the alias an address was
\* constructed with, to that address returns the network's HRP and the 20
\* short-id bytes the address was constructed from, whatever the alias.
C3_LeftInverse ==
    (parsed # NotParsed /\ built.kind = "as_built" /\ parsed.alias = built.alias)
        => parsed.res = Ok(<<built.hrp, built.short>>)

\* C3 witness: a C-chain address of network 1 was parsed back to "avax" and
\* the key's short id
C3_Witness ==
    /\ parsed # NotParsed
    /\ built.kind = "as_built"
    /\ parsed.alias = <<"C">> /\ built.alias = <<"C">>
    /\ SubSeq(parsed.addr, 1, 7) = <<"C", "-", "a", "v", "a", "x", "1">>
    /\ parsed.res.ok
    /\ parsed.res.value = << <<"a", "v", "a", "x">>, [i \in 1..20 |-> (i * 37 + 11) % 256] >>
    /\ short.res.value = parsed.res.value[2]

C6_UnknownTypeIsAnError ==
    \A i \in DOMAIN sent :
        IF TypeName(sent[i].kind) \in DOMAIN types
        THEN sent[i].out.res.ok /\ sent[i].out.packer # NoPacker
        ELSE /\ sent[i].out.res = Err("InvalidInput", "unknown type name")
             /\ sent[i].out.packer = NoPacker

\* C6 witness: with "app_response" absent an AppResponse got the error and a
\* StateSummaryFrontier was serialized
C6_Witness ==
    /\ DOMAIN types = {"state_summary_frontier"}
    /\ Len(sent) = 2
    /\ sent[2].kind = "app_response" /\ ~sent[2].out.res.ok
    /\ sent[2].out.res.msg = "unknown type name"
    /\ sent[1].kind = "state_summary_frontier" /\ sent[1].out.res.ok

\* C7: avax_address_to_short_bytes returns (hrp, bytes) or an error naming the
\* stage that failed: an address with a bad checksum, a character outside the
\* character set or no separator gets the error of bech32::decode, one whose
\* data does not regroup to bytes the error of bech32::convert_bits.
C7_DecodeFailuresAreErrors ==
    parsed # NotParsed =>
        LET r == parsed.res
        IN  /\ r.ok => /\ Len(r.value) = 2
                       /\ r.value[1] # <<>>
                       /\ \A i \in DOMAIN r.value[2] : r.value[2][i] \in 0..255
            /\ ~r.ok => /\ r.kind = "Other"
                        /\ r.msg \in {"failed bech32::decode", "failed bech32::convert_bits"}
            /\ built.kind \in {"flip_checksum", "bad_char", "no_separator"}
                   => r = Err("Other", "failed bech32::decode")
            /\ (built.kind = "bad_padding" /\ StartsWith(parsed.alias, built.alias))
                   => r = Err("Other", "failed bech32::convert_bits")

\* C7 witness: an address whose last checksum character was changed was
\* parsed with its own alias and got the error of bech32::decode
C7_Witness ==
    /\ parsed # NotParsed
    /\ built.kind = "flip_checksum"
    /\ parsed.alias = built.alias
    /\ StartsWith(parsed.handed, built.hrp \o <<"1">>)
    /\ parsed.res = Err("Other", "failed bech32::decode")

\* C8: hash_sha256_ripemd160 returns Ok with the 20 bytes when the RIPEMD-160
\* step yields 20 bytes and an InvalidData error when it yields another
\* length; every Ok result has 20 bytes.
C8_ShortIdLength ==
    short # NoShort =>
        /\ Len(short.digest) = 20 => short.res = Ok(short.digest)
        /\ Len(short.digest) # 20 => ~short.res.ok /\ short.res.kind = "InvalidData"
        /\ short.res.ok => Len(short.res.value) = 20

\* C8 witness: for the empty key a RIPEMD-160 step of 21 bytes was refused
C8_Witness ==
    /\ short # NoShort
    /\ short.pub = <<>>
    /\ Len(short.digest) = 21
    /\ ~short.res.ok /\ short.res.kind = "InvalidData"

\* C9 as stated: with a non-empty alias the string decoded is addr with a
\* single leading "<alias>-" removed when addr starts with it, addr otherwise.
C9_SinglePrefixStripped ==
    (parsed # NotParsed /\ parsed.alias # <<>>) =>
        StrippedOfOne(parsed.addr,
                      IF EndsWith(parsed.alias, <<"-">>) THEN parsed.alias
                      ELSE parsed.alias \o <<"-">>,
                      parsed.handed)

\* C9 amended: with a non-empty alias the string decoded is addr with every
\* leading repetition of "<alias>-" removed; with an empty alias no prefix is
\* removed, only the white space at both ends.
C9_EveryPrefixStripped ==
    parsed # NotParsed =>
        IF parsed.alias # <<>>
        THEN StrippedOfAll(parsed.addr,
                           IF EndsWith(parsed.alias, <<"-">>) THEN parsed.alias
                           ELSE parsed.alias \o <<"-">>,
                           parsed.handed)
        ELSE /\ \E i, j \in 0..Len(parsed.addr) :
                    parsed.addr = Repeat(" ", i) \o parsed.handed \o Repeat(" ", j)
             /\ parsed.handed # <<>> =>
                    parsed.handed[1] # " " /\ parsed.handed[Len(parsed.handed)] # " "

\* C9 witness: "X-X-avax1..." parsed with alias "X": both prefixes were
\* removed and the address was accepted
C9_Witness ==
    /\ parsed # NotParsed
    /\ built.kind = "doubled"
    /\ parsed.alias = <<"X">> /\ built.alias = <<"X">>
    /\ SubSeq(parsed.addr, 1, 4) = <<"X", "-", "X", "-">>
    /\ SubSeq(parsed.handed, 1, 5) = <<"a", "v", "a", "x", "1">>
    /\ parsed.res = Ok(<<built.hrp, built.short>>)

\* C10: two serializations return the same bytes only for the same variant
\* with equal chain id, request id and payload; an AppResponse never
\* serializes to the bytes of a StateSummaryFrontier.
C10_Injective ==
    Len(sent) = 2 =>
        /\ sent[1].out.res.ok /\ sent[2].out.res.ok
        /\ Bytes(sent[1]) = Bytes(sent[2])
               => sent[1].kind = sent[2].kind /\ sent[1].msg = sent[2].msg
        /\ sent[1].kind # sent[2].kind => Bytes(sent[1])[5] # Bytes(sent[2])[5]

\* C10 witness: the same chain id, request id and payload were serialized as
\* both variants, to byte strings that differ
C10_Witness ==
    /\ Len(sent) = 2
    /\ sent[1].kind # sent[2].kind
    /\ sent[1].msg = sent[2].msg
    /\ Bytes(sent[1]) # Bytes(sent[2])
    /\ Tail(Tail(Tail(Tail(Tail(Bytes(sent[1])))))) = Tail(Tail(Tail(Tail(Tail(Bytes(sent[2]))))))

====
